---------------------------- MODULE Spec2Model ----------------------------
(***************************************************************************)
(* Model of the VanillaJS utility library.                                 *)
(*                                                                         *)
(*   - debounce / throttle     (README-v1-deprecated.md, lines 184-216)    *)
(*   - element.once / trigger  (README-v1-deprecated.md, lines 334-357)    *)
(*   - UI.querySelector        (vanilla-js-library.js, lines 10-29)        *)
(*   - UI.querySelectorAll     (vanilla-js-library.js, lines 32-51)        *)
(*                                                                         *)
(* The host is the browser's single-threaded event loop: a clock read by   *)
(* Date.now(), and a timer table filled by setTimeout and emptied by       *)
(* clearTimeout and by the firing of a timer.  A timer fires in the        *)
(* millisecond it becomes due: the clock does not advance past a due       *)
(* timer, but calls made in that same millisecond may run before it.       *)
(***************************************************************************)
EXTENDS Integers, Sequences, FiniteSets, TLC

\* ------------------------------------------------------------------ bounds
\* Largest delay / limit handed to debounce and throttle.
MaxDelay == 2
\* Number of calls made to the wrapped functions, all told.
MaxCalls == 4
\* Last value of the clock.
MaxClock == 6

VARIABLES
    clock,      \* Date.now()
    timers,     \* the host's table of pending timers
    nextHandle, \* the handle the next setTimeout returns
    delay,      \* debounce(func, delay)
    timeout,    \* debounce: let timeout
    limit,      \* throttle(func, limit)
    lastFunc,   \* throttle: let lastFunc
    lastRan,    \* throttle: let lastRan
    dCalls,     \* history: calls of the debounced function
    dExecs,     \* history: executions of func by the debouncer
    tCalls,     \* history: calls of the throttled function
    tExecs,     \* history: executions of func by the throttler
    listeners,  \* the element's listeners for the event, in the order added
    nextOnce,   \* the closure the next element.once creates
    stack,      \* dispatchEvent calls in progress, innermost last
    triggers,   \* history: element.trigger calls made so far
    invoked,    \* history: how often each once callback was invoked
    document,   \* the elements of the document, in tree order
    queried,    \* the argument of the latest UI.querySelector call
    outcome,    \* how that call ended
    queriedAll, \* the argument of the latest UI.querySelectorAll call
    outcomeAll  \* how that call ended

timerVars == <<clock, timers, nextHandle, delay, timeout, limit, lastFunc,
               lastRan, dCalls, dExecs, tCalls, tExecs>>

onceVars == <<listeners, nextOnce, stack, triggers, invoked>>

queryVars == <<document, queried, outcome, queriedAll, outcomeAll>>

vars == <<timerVars, onceVars, queryVars>>

\* ------------------------------------------------------------ JS values
\* `let timeout;` and `let lastFunc;` hold undefined until the first
\* setTimeout; handles returned by setTimeout are positive integers, and
\* clearTimeout(undefined) is clearTimeout(0): both cancel nothing.
\* `let lastRan;` holds undefined until the first run; !undefined and !0
\* are both true, so one falsy value stands for the two.
Undefined == 0

\* !x for a number or undefined.
Not(x) == x = Undefined

Max(a, b) == IF a >= b THEN a ELSE b

Last(s) == s[Len(s)]

\* ------------------------------------------------------------ host timers
\* A clearTimeout that cancels nothing (the call left out).
ClearNothing(ts, h) == ts

\* clearTimeout(h): the timer with handle h, if still pending, is removed.
ClearTimeout(ts, h) == {t \in ts : t.id # h}

\* A setTimeout that ignores its delay (the callback due at once).
SetTimeoutNow(ts, owner, ms, arg, now) ==
    ts \cup {[id |-> nextHandle, owner |-> owner, due |-> clock,
              arg |-> arg, now |-> now]}

\* setTimeout(cb, ms): a new pending timer due ms from now (a negative ms
\* counts as 0).  cb is the closure: its owner, and the args and now it
\* captured.
SetTimeout(ts, owner, ms, arg, now) ==
    ts \cup {[id |-> nextHandle, owner |-> owner, due |-> clock + Max(ms, 0),
              arg |-> arg, now |-> now]}

\* A timer that fires a millisecond late.
DueLate(t) == t.due < clock

\* The timer t has run out.
Due(t) == t.due <= clock

\* ---------------------------------------------------------------- debounce
\* The k-th call passes k as its argument, so that an execution names the
\* call whose arguments it uses.
\* (...args) => { clearTimeout(timeout); timeout = setTimeout(..., delay); }
Debounced ==
    LET arg == Len(dCalls) + 1 IN
        /\ dCalls' = Append(dCalls, [t |-> clock, arg |-> arg])
        /\ timers' = SetTimeout(ClearTimeout(timers, timeout),
                                "debounce", delay, arg, clock)
        /\ timeout' = nextHandle
        /\ nextHandle' = nextHandle + 1
        /\ UNCHANGED <<clock, delay, limit, lastFunc, lastRan, dExecs,
                       tCalls, tExecs>>

DebouncedCall ==
    /\ Len(dCalls) + Len(tCalls) < MaxCalls
    /\ Debounced
    /\ UNCHANGED <<onceVars, queryVars>>

\* () => func(...args)
DebounceTimerFires ==
    \E t \in timers :
        /\ t.owner = "debounce"
        /\ Due(t)
        /\ timers' = timers \ {t}
        /\ dExecs' = Append(dExecs, [t |-> clock, arg |-> t.arg])
        /\ UNCHANGED <<clock, nextHandle, delay, timeout, limit, lastFunc,
                       lastRan, dCalls, tCalls, tExecs>>
        /\ UNCHANGED <<onceVars, queryVars>>

\* ---------------------------------------------------------------- throttle
ThrottleTimers == {t \in timers : t.owner = "throttle"}

DebounceTimers == {t \in timers : t.owner = "debounce"}

\* The instance is idle in the sense of the specification's state machine:
\* never called, or the window of limit since the last execution has elapsed
\* and no trailing call is pending.  Recorded with each call as history; the
\* code does not read it.
Idle ==
    \/ tCalls = <<>>
    \/ /\ tExecs # <<>>
       /\ clock - Last(tExecs).t >= limit
       /\ ThrottleTimers = {}

\* A trailing timer that runs func without the test.
ShouldRunAlways(t) == TRUE

\* if (now - lastRan >= limit), with the now the closure t captured.
ShouldRun(t) == t.now - lastRan >= limit

\* (...args) => { const now = Date.now(); if (!lastRan) {...} else {...} }
Throttled ==
    LET arg == Len(tCalls) + 1
        now == clock
    IN
        /\ tCalls' = Append(tCalls, [t |-> clock, arg |-> arg, idle |-> Idle])
        /\ IF Not(lastRan)
             THEN /\ tExecs' = Append(tExecs, [t |-> clock, arg |-> arg])
                  /\ lastRan' = now
                  /\ UNCHANGED <<timers, lastFunc, nextHandle>>
             ELSE /\ timers' = SetTimeout(ClearTimeout(timers, lastFunc),
                                          "throttle", limit - (now - lastRan),
                                          arg, now)
                  /\ lastFunc' = nextHandle
                  /\ nextHandle' = nextHandle + 1
                  /\ UNCHANGED <<tExecs, lastRan>>
        /\ UNCHANGED <<clock, delay, timeout, limit, dCalls, dExecs>>

ThrottledCall ==
    /\ Len(dCalls) + Len(tCalls) < MaxCalls
    /\ Throttled
    /\ UNCHANGED <<onceVars, queryVars>>

\* () => { if (now - lastRan >= limit) { func(...args); lastRan = now; } }
\* now is the value captured by the call that set the timer.
ThrottleTimerFires ==
    \E t \in timers :
        /\ t.owner = "throttle"
        /\ Due(t)
        /\ timers' = timers \ {t}
        /\ IF ShouldRun(t)
             THEN /\ tExecs' = Append(tExecs, [t |-> clock, arg |-> t.arg])
                  /\ lastRan' = t.now
             ELSE UNCHANGED <<tExecs, lastRan>>
        /\ UNCHANGED <<clock, nextHandle, delay, timeout, limit, lastFunc,
                       dCalls, dExecs, tCalls>>
        /\ UNCHANGED <<onceVars, queryVars>>

\* -------------------------------------------------------------------- host
\* A millisecond passes; every timer due in this one has fired.
Elapse ==
    /\ \A t \in timers : ~Due(t)
    /\ clock' = clock + 1
    /\ UNCHANGED <<timers, nextHandle, delay, timeout, limit, lastFunc,
                   lastRan, dCalls, dExecs, tCalls, tExecs>>
    /\ UNCHANGED <<onceVars, queryVars>>

Tick ==
    /\ clock < MaxClock
    /\ Elapse

\* ------------------------------------------------------------ element.once
\* Number of element.once registrations.
MaxOnce == 2
\* Number of element.trigger calls, nested ones included.
MaxTriggers == 3
\* Depth of nested dispatchEvent calls.
MaxDepth == 2

Range(s) == {s[i] : i \in DOMAIN s}

Remove(s, x) == SelectSeq(s, LAMBDA y : y # x)

Top == stack[Len(stack)]

SetTop(f) == [stack EXCEPT ![Len(stack)] = f]

\* A dispatch is delivering to a listener: its onceCallback is running.
Running == stack # <<>> /\ Top.running # <<>>

\* element.once(event, callback), from the page's script: a new closure
\* onceCallback is added to the element's listeners.
Once ==
    /\ stack = <<>>
    /\ nextOnce <= MaxOnce
    /\ listeners' = Append(listeners, nextOnce)
    /\ nextOnce' = nextOnce + 1
    /\ UNCHANGED <<stack, triggers, invoked>>
    /\ UNCHANGED <<timerVars, queryVars>>

\* this.dispatchEvent(event): the dispatch works through a copy of the
\* listeners made when it starts.
DispatchEvent ==
    /\ triggers < MaxTriggers
    /\ stack' = Append(stack, [pending |-> listeners, running |-> <<>>])
    /\ triggers' = triggers + 1
    /\ UNCHANGED <<listeners, nextOnce, invoked>>
    /\ UNCHANGED <<timerVars, queryVars>>

\* element.trigger(eventType), from the page's script.
Trigger ==
    /\ stack = <<>>
    /\ DispatchEvent

\* The dispatch reaches its next listener; one removed since the dispatch
\* started is skipped, any other is called: onceCallback(e) calls callback(e).
Deliver ==
    /\ stack # <<>>
    /\ Top.running = <<>>
    /\ Top.pending # <<>>
    /\ LET l == Head(Top.pending) IN
        IF l \in Range(listeners)
          THEN /\ stack' = SetTop([pending |-> Tail(Top.pending), running |-> <<l>>])
               /\ invoked' = [invoked EXCEPT ![l] = @ + 1]
          ELSE /\ stack' = SetTop([pending |-> Tail(Top.pending), running |-> <<>>])
               /\ UNCHANGED invoked
    /\ UNCHANGED <<listeners, nextOnce, triggers>>
    /\ UNCHANGED <<timerVars, queryVars>>

\* callback(e) returns; this.removeEventListener(event, onceCallback).
CallbackReturns ==
    /\ Running
    /\ listeners' = Remove(listeners, Top.running[1])
    /\ stack' = SetTop([Top EXCEPT !.running = <<>>])
    /\ UNCHANGED <<nextOnce, triggers, invoked>>
    /\ UNCHANGED <<timerVars, queryVars>>

\* callback(e) throws: onceCallback ends there, and the dispatch reports the
\* exception and goes on.
CallbackThrows ==
    /\ Running
    /\ stack' = SetTop([Top EXCEPT !.running = <<>>])
    /\ UNCHANGED <<listeners, nextOnce, triggers, invoked>>
    /\ UNCHANGED <<timerVars, queryVars>>

\* callback(e) calls element.trigger(eventType) itself.
CallbackTriggers ==
    /\ Running
    /\ Len(stack) < MaxDepth
    /\ DispatchEvent

\* The dispatch has gone through its listeners: dispatchEvent returns.
DispatchReturns ==
    /\ stack # <<>>
    /\ Top.running = <<>>
    /\ Top.pending = <<>>
    /\ stack' = SubSeq(stack, 1, Len(stack) - 1)
    /\ UNCHANGED <<listeners, nextOnce, triggers, invoked>>
    /\ UNCHANGED <<timerVars, queryVars>>

\* ---------------------------------------------------------- UI.querySelector
\* Number of elements in the document.
MaxElems == 2

ElementKinds ==
    {[tag |-> "h1", id |-> ""], [tag |-> "h1", id |-> "main"],
     [tag |-> "p", id |-> "main"]}

Documents ==
    UNION {[1..n -> ElementKinds] : n \in 0..MaxElems}

\* JS values handed to querySelector: strings, and values of other types.
Strings == {"h1", "p", "div", "#main", "", "###"}

Values ==
    {[type |-> "string", str |-> s] : s \in Strings}
        \cup {[type |-> ty, str |-> ""] :
                ty \in {"number", "undefined", "object", "boolean"}}

\* typeof v
Typeof(v) == v.type

Null == [type |-> "object", node |-> 0]

\* The element at place n of the document.
Element(n) == [type |-> "element", node |-> n]

Return(v) == [kind |-> "return", value |-> v]

Throw(e) == [kind |-> "throw", value |-> [type |-> e, node |-> 0]]

\* The CSS selector a string is, if it is one: "" and "###" are none.
ParseSelector(s) ==
    CASE s = "h1"    -> [valid |-> TRUE, by |-> "tag", name |-> "h1"]
      [] s = "p"     -> [valid |-> TRUE, by |-> "tag", name |-> "p"]
      [] s = "div"   -> [valid |-> TRUE, by |-> "tag", name |-> "div"]
      [] s = "#main" -> [valid |-> TRUE, by |-> "id", name |-> "main"]
      [] OTHER       -> [valid |-> FALSE, by |-> "", name |-> ""]

Matches(e, sel) ==
    /\ sel.valid
    /\ IF sel.by = "tag" THEN e.tag = sel.name ELSE e.id = sel.name

\* The places of the elements of the document that match the string s.
Matching(s) ==
    {n \in DOMAIN document : Matches(document[n], ParseSelector(s))}

Min(S) == CHOOSE n \in S : \A m \in S : n <= m

\* document.querySelector(s): the first match in tree order, null when
\* there is none, a SyntaxError when s is no valid selector.
DocumentQuerySelector(s) ==
    IF ~ParseSelector(s).valid THEN Throw("SyntaxError")
    ELSE IF Matching(s) = {} THEN Return(Null)
    ELSE Return(Element(Min(Matching(s))))

\* VanillaJS.UI.querySelector(element)
QuerySelector(element) ==
    IF Typeof(element) # "string" THEN Return(Null)
    ELSE LET selectedElement == DocumentQuerySelector(element.str) IN
         IF selectedElement.kind = "throw" THEN selectedElement
         ELSE IF selectedElement.value = Null THEN Return(Null)
         ELSE Return(selectedElement.value)

CallQuerySelector ==
    \E x \in Values :
        /\ queried' = <<x>>
        /\ outcome' = <<QuerySelector(x)>>
        /\ UNCHANGED <<document, queriedAll, outcomeAll>>
        /\ UNCHANGED <<timerVars, onceVars>>

\* ------------------------------------------------------- UI.querySelectorAll
\* The places 1..Len(document), in tree order.
Places == [n \in DOMAIN document |-> n]

\* A NodeList of the elements at the places ns, in that order.
NodeList(ns) == [type |-> "nodelist", node |-> 0, nodes |-> ns]

\* A JS number and a JS boolean.
Number(n) == [type |-> "number", val |-> n]

Boolean(b) == [type |-> "boolean", val |-> b]

\* !n for a number n: true for 0, false for any other.
LogicalNot(n) == Boolean(n.val = 0)

\* a === b: values of different types are never equal.
StrictEquals(a, b) == a.type = b.type /\ a.val = b.val

\* document.querySelectorAll(s): every match in tree order (an empty
\* NodeList when there is none), a SyntaxError when s is no valid selector.
DocumentQuerySelectorAll(s) ==
    IF ~ParseSelector(s).valid THEN Throw("SyntaxError")
    ELSE Return(NodeList(SelectSeq(Places, LAMBDA n : n \in Matching(s))))

\* if (!selectedElement.length === 0): ! binds tighter than ===, so the
\* boolean !length is compared with the number 0.
NoneFound(selectedElement) ==
    StrictEquals(LogicalNot(Number(Len(selectedElement.nodes))), Number(0))

\* VanillaJS.UI.querySelectorAll(element)
QuerySelectorAll(element) ==
    IF Typeof(element) # "string" THEN Return(Null)
    ELSE LET selectedElement == DocumentQuerySelectorAll(element.str) IN
         IF selectedElement.kind = "throw" THEN selectedElement
         ELSE IF NoneFound(selectedElement.value) THEN Return(Null)
         ELSE Return(selectedElement.value)

CallQuerySelectorAll ==
    \E x \in Values :
        /\ queriedAll' = <<x>>
        /\ outcomeAll' = <<QuerySelectorAll(x)>>
        /\ UNCHANGED <<document, queried, outcome>>
        /\ UNCHANGED <<timerVars, onceVars>>

\* ----------------------------------------------------------- initial states
\* Date.now() is milliseconds since 1970: positive.
HostInit ==
    /\ clock = 1
    /\ timers = {}
    /\ nextHandle = 1
    /\ timeout = Undefined
    /\ lastFunc = Undefined
    /\ lastRan = Undefined
    /\ dCalls = <<>>
    /\ dExecs = <<>>
    /\ tCalls = <<>>
    /\ tExecs = <<>>

\* debounce(func, delay) and throttle(func, limit) have returned.
TimerInit ==
    /\ HostInit
    /\ delay \in 0..MaxDelay
    /\ limit \in 1..MaxDelay

\* No debounced or throttled function was made.
NoTimers ==
    /\ HostInit
    /\ delay = 0
    /\ limit = 0

OnceInit ==
    /\ listeners = <<>>
    /\ nextOnce = 1
    /\ stack = <<>>
    /\ triggers = 0
    /\ invoked = [l \in 1..MaxOnce |-> 0]

QueryInit ==
    /\ document \in Documents
    /\ queried = <<>>
    /\ outcome = <<>>
    /\ queriedAll = <<>>
    /\ outcomeAll = <<>>

EmptyDocument ==
    /\ document = <<>>
    /\ queried = <<>>
    /\ outcome = <<>>
    /\ queriedAll = <<>>
    /\ outcomeAll = <<>>

\* ------------------------------------------------- debounce and throttle
Init == TimerInit /\ OnceInit /\ EmptyDocument

Next ==
    \/ DebouncedCall
    \/ DebounceTimerFires
    \/ ThrottledCall
    \/ ThrottleTimerFires
    \/ Tick

Spec == Init /\ [][Next]_vars

\* ------------------------------------------------- the scenario of C7
\* throttle(fn, 100), made when the clock shows start, and called 0, 30, 60,
\* 90 and 120 ms later; the clock runs until start + last.
Scenario ==
    [limit |-> 100, calls |-> <<0, 30, 60, 90, 120>>, start |-> 1, last |-> 130]

\* The next call of the scenario is due now.
ScenarioCallDue ==
    /\ Len(tCalls) < Len(Scenario.calls)
    /\ clock = Scenario.start + Scenario.calls[Len(tCalls) + 1]

ScenarioInit ==
    /\ HostInit
    /\ delay = 0
    /\ limit = Scenario.limit
    /\ OnceInit
    /\ EmptyDocument

ScenarioCall ==
    /\ ScenarioCallDue
    /\ Throttled
    /\ UNCHANGED <<onceVars, queryVars>>

ScenarioTick ==
    /\ clock < Scenario.start + Scenario.last
    /\ ~ScenarioCallDue
    /\ Elapse

ScenarioNext ==
    \/ ScenarioCall
    \/ ThrottleTimerFires
    \/ ScenarioTick

SpecScenario == ScenarioInit /\ [][ScenarioNext]_vars

\* ------------------------------------------------- element.once
InitOnce == NoTimers /\ OnceInit /\ EmptyDocument

NextOnce ==
    \/ Once
    \/ Trigger
    \/ Deliver
    \/ CallbackReturns
    \/ CallbackThrows
    \/ CallbackTriggers
    \/ DispatchReturns

SpecOnce == InitOnce /\ [][NextOnce]_vars

\* ------------------------------------------------- UI.querySelector
InitQuery == NoTimers /\ OnceInit /\ QueryInit

NextQuery ==
    \/ CallQuerySelector
    \/ CallQuerySelectorAll

SpecQuery == InitQuery /\ [][NextQuery]_vars

\* ================================================================== claims
\* ------------------------------------------------------------------ C1
\* The calls made so far to the debounced function form one burst: each
\* arrived less than delay after the one before it.
DebounceBurst ==
    /\ dCalls # <<>>
    /\ \A k \in 1..(Len(dCalls) - 1) : dCalls[k + 1].t - dCalls[k].t < delay

\* C1 (debounce collapse): after a burst of N >= 1 calls, each less than
\* delay after the previous one, func runs at most once, and only delay
\* after the N-th call with the N-th call's arguments; until it has run, the
\* timer that will run it so is pending, and once the clock has passed that
\* moment it has run exactly once.  No run uses the arguments of calls 1..N-1.
C1_DebounceCollapse ==
    DebounceBurst =>
        LET last == Last(dCalls)
            run  == [t |-> last.t + delay, arg |-> last.arg]
        IN  /\ Len(dExecs) <= 1
            /\ \A i \in 1..Len(dExecs) : dExecs[i] = run
            /\ dExecs = <<>> =>
                   \E t \in DebounceTimers : t.due = run.t /\ t.arg = run.arg
            /\ clock > run.t => dExecs = <<run>>

\* A burst of three calls at three different times has collapsed into one run.
C1_Witness ==
    /\ DebounceBurst
    /\ Len(dCalls) = 3
    /\ dCalls[1].t < dCalls[2].t
    /\ dCalls[2].t < dCalls[3].t
    /\ Len(dExecs) = 1

\* ------------------------------------------------------------------ C2
\* C2 (throttle trailing guarantee): the final call of a burst is never
\* permanently dropped.  Once no timer of the throttler is pending nothing
\* more can run unless another call arrives, so by then func has run with
\* the arguments of the final call.
C2_TrailingNeverDropped ==
    (tCalls # <<>> /\ ThrottleTimers = {}) =>
        \E i \in 1..Len(tExecs) : tExecs[i].arg = Last(tCalls).arg

ThrottleBurst ==
    /\ Len(tCalls) > 1
    /\ Last(tCalls).t - tCalls[1].t > 0
    /\ Last(tCalls).t - tCalls[1].t < limit

\* C4 (throttle burst count): once such a burst has settled (no timer
\* pending), func has run exactly twice: first with the first call's
\* arguments, then with the last call's.
C4_BurstRunsTwice ==
    (ThrottleBurst /\ ThrottleTimers = {}) =>
        /\ Len(tExecs) = 2
        /\ tExecs[1].arg = tCalls[1].arg
        /\ tExecs[2].arg = Last(tCalls).arg

\* ------------------------------------------------------------------ C5
\* Every gap between consecutive calls of the debounced function exceeds delay.
DebounceSpaced ==
    \A k \in 1..(Len(dCalls) - 1) : dCalls[k + 1].t - dCalls[k].t > delay

\* C5 (debounce spaced calls): when every gap exceeds delay, the i-th run
\* uses the i-th call's arguments, happens delay after it and before the
\* (i+1)-th call; only the latest call can still be waiting for its run, and
\* with no timer pending N calls have given exactly N runs.
C5_SpacedCallsEachRun ==
    DebounceSpaced =>
        /\ Len(dExecs) <= Len(dCalls)
        /\ Len(dExecs) >= Len(dCalls) - 1
        /\ \A i \in 1..Len(dExecs) :
               /\ dExecs[i] = [t |-> dCalls[i].t + delay, arg |-> dCalls[i].arg]
               /\ i < Len(dCalls) => dExecs[i].t < dCalls[i + 1].t
        /\ DebounceTimers = {} => Len(dExecs) = Len(dCalls)

\* Three spaced calls, a positive delay, three runs.
C5_Witness ==
    /\ DebounceSpaced
    /\ delay > 0
    /\ Len(dCalls) = 3
    /\ Len(dExecs) = 3

\* ------------------------------------------------------------------ C6
\* C6 (throttle idle call is immediate): a call made while the instance is
\* idle runs func with its own arguments, in the millisecond of the call,
\* before any later call of the wrapped function is processed.
C6_IdleCallImmediate ==
    \A k \in 1..(Len(tCalls) - 1) :
        tCalls[k].idle =>
            \E i \in 1..Len(tExecs) :
                tExecs[i] = [t |-> tCalls[k].t, arg |-> tCalls[k].arg]

\* ------------------------------------------------------------------ C8
\* C8 (single pending timer): the debouncer and the throttler each have at
\* most one pending timer, and it is the one their latest scheduling call
\* set (timeout, lastFunc): every earlier one was cancelled or has fired.
C8_SinglePendingTimer ==
    /\ Cardinality(DebounceTimers) <= 1
    /\ Cardinality(ThrottleTimers) <= 1
    /\ \A t \in DebounceTimers : t.id = timeout
    /\ \A t \in ThrottleTimers : t.id = lastFunc

\* Both instances have a timer pending, and the debouncer's replaced one
\* that was still pending when the call arrived.
C8_Witness ==
    /\ Len(dCalls) >= 2
    /\ Last(dCalls).t - dCalls[Len(dCalls) - 1].t < delay
    /\ DebounceTimers # {}
    /\ ThrottleTimers # {}

\* ------------------------------------------------------------------ C7
\* The scenario has run to its end.
ScenarioOver == clock = Scenario.start + Scenario.last

\* C7 (throttle concrete scenario): with throttle(fn, 100) and calls at
\* t = 0, 30, 60, 90, 120, fn has run at t = 0 with the first call's
\* arguments and at t = 100 with those of the fourth call (t = 90), and no
\* run used the arguments of the second or third call (t = 30, t = 60).
C7_ThrottleScenario ==
    ScenarioOver =>
        /\ \E i \in 1..Len(tExecs) :
               tExecs[i] = [t |-> Scenario.start, arg |-> 1]
        /\ \E i \in 1..Len(tExecs) :
               tExecs[i] = [t |-> Scenario.start + Scenario.limit, arg |-> 4]
        /\ \A i \in 1..Len(tExecs) : tExecs[i].arg \notin {2, 3}

\* ------------------------------------------------------------------ C9
\* C9 (once fires only once): the callback of every element.once
\* registration is invoked at most once, and once its first invocation has
\* ended its listener is no longer registered.
C9_OnceFiresOnce ==
    \A l \in 1..MaxOnce :
        /\ invoked[l] <= 1
        /\ (invoked[l] >= 1 /\ \A i \in 1..Len(stack) : stack[i].running # <<l>>)
              => l \notin Range(listeners)

\* ------------------------------------------------------------------ C10
\* C10 (querySelector not-found result): UI.querySelector(x) returns, never
\* throws; it returns null when x is not a string or no element of the
\* document matches x, and the first matching element otherwise.
C10_QuerySelectorResult ==
    outcome # <<>> =>
        LET x == queried[1]
            r == outcome[1]
        IN  /\ r.kind = "return"
            /\ IF Typeof(x) # "string" \/ Matching(x.str) = {}
                 THEN r.value = Null
                 ELSE r.value = Element(Min(Matching(x.str)))

\* ------------------------------------------------------------------ C11
\* C11 (querySelectorAll not-found result): UI.querySelectorAll(x) returns
\* null when x is not a string and also when x is a string that matches no
\* element of the document; it returns the list of the matching elements,
\* in tree order, only when at least one element matches.
C11_QuerySelectorAllResult ==
    outcomeAll # <<>> =>
        LET x == queriedAll[1]
            r == outcomeAll[1]
        IN  /\ r.kind = "return"
            /\ IF Typeof(x) # "string" \/ Matching(x.str) = {}
                 THEN r.value.type = "object"
                 ELSE /\ r.value.type = "nodelist"
                      /\ r.value.nodes # <<>>
                      /\ r.value.nodes =
                             SelectSeq(Places, LAMBDA n : n \in Matching(x.str))

=============================================================================
